---- MODULE Spec2Model ----
(***************************************************************************)
(* Model of encoding/functions/encoding.py: the two autograd Functions     *)
(* _aggregate and ScaledL2 (forward / backward), the tensor operations    *)
(* they are written with, and the ctx object that carries the retained     *)
(* tensors from forward to backward.                                       *)
(*                                                                         *)
(* Tensors live on a heap of storages; a tensor handle is a view of one    *)
(* storage (unsqueeze / expand / view share the storage, arithmetic makes  *)
(* a fresh storage, the trailing-underscore operations write in place).    *)
(* Element values are exact extended rationals n/d: d = 0 stands for the   *)
(* non-finite values (1/0 = +inf, -1/0 = -inf, 0/0 = NaN), so rounding is  *)
(* abstracted away while division by zero keeps its IEEE outcome.          *)
(***************************************************************************)
EXTENDS Integers, Sequences, FiniteSets, TLC

\* ---------------------------------------------------------------- bounds
MaxDim  == 2      \* every dimension B, N, K, D ranges over 1..MaxDim
MaxSeed == 1      \* input contents are drawn from seeds 0..MaxSeed
MaxVal  == 2      \* input elements range over -MaxVal..MaxVal

\* ------------------------------------------------- element arithmetic
Abs(n) == IF n < 0 THEN -n ELSE n
Sign(n) == IF n < 0 THEN -1 ELSE IF n = 0 THEN 0 ELSE 1

RECURSIVE GCD(_, _)
GCD(a, b) == IF b = 0 THEN a ELSE GCD(b, a % b)

\* n/d in lowest terms with d >= 0; d = 0 keeps only the sign of n
Norm(n, d) ==
  IF d = 0 THEN [n |-> Sign(n), d |-> 0]
  ELSE LET g == GCD(Abs(n), Abs(d))
           s == IF d < 0 THEN -1 ELSE 1
       IN [n |-> (s * n) \div g, d |-> (s * d) \div g]

Fin(n) == [n |-> n, d |-> 1]
NaN == [n |-> 0, d |-> 0]
IsNaN(v) == v.d = 0 /\ v.n = 0
IsInf(v) == v.d = 0 /\ v.n # 0
IsFinite(v) == v.d # 0

Mul(a, b) == Norm(a.n * b.n, a.d * b.d)
Neg(a) == [n |-> -a.n, d |-> a.d]
Add(a, b) ==
  IF IsInf(a) /\ IsInf(b) THEN (IF a.n = b.n THEN a ELSE NaN)
  ELSE Norm(a.n * b.d + b.n * a.d, a.d * b.d)
Sub(a, b) == Add(a, Neg(b))
\* true division; x/0 is +-inf for x # 0 and NaN for x = 0 (the sign of a
\* zero divisor is not tracked)
Div(a, b) == Norm(a.n * b.d * (IF b.n < 0 THEN -1 ELSE 1), a.d * Abs(b.n))

\* ------------------------------------------------------ index algebra
RECURSIVE Idx(_)
Idx(sh) == IF sh = <<>> THEN {<<>>}
           ELSE {<<i>> \o r : i \in 1..Head(sh), r \in Idx(Tail(sh))}

RECURSIVE Numel(_)
Numel(sh) == IF sh = <<>> THEN 1 ELSE Head(sh) * Numel(Tail(sh))

\* row-major offset (0-based) of index ix in a tensor of shape sh
RECURSIVE Lin(_, _)
Lin(sh, ix) == IF sh = <<>> THEN 0
               ELSE (Head(ix) - 1) * Numel(Tail(sh)) + Lin(Tail(sh), Tail(ix))

Unlin(sh, l) == CHOOSE ix \in Idx(sh) : Lin(sh, ix) = l

RECURSIVE SumOver(_, _)
SumOver(f, S) == IF S = {} THEN Fin(0)
                 ELSE LET x == CHOOSE y \in S : TRUE
                      IN Add(f[x], SumOver(f, S \ {x}))

\* shapes aligned on their trailing dimensions, the shorter padded with 1
Pad(s, n) == [j \in 1..n |-> IF j <= n - Len(s) THEN 1 ELSE s[j - (n - Len(s))]]
MaxLen(sa, sb) == IF Len(sa) > Len(sb) THEN Len(sa) ELSE Len(sb)
Broadcastable(sa, sb) ==
  LET n == MaxLen(sa, sb) pa == Pad(sa, n) pb == Pad(sb, n)
  IN \A j \in 1..n : pa[j] = pb[j] \/ pa[j] = 1 \/ pb[j] = 1
BShape(sa, sb) ==
  LET n == MaxLen(sa, sb) pa == Pad(sa, n) pb == Pad(sb, n)
  IN [j \in 1..n |-> IF pa[j] = 1 THEN pb[j] ELSE pa[j]]
\* index into an operand of shape s for index ix of the broadcast result
BIx(s, ix) == [j \in 1..Len(s) |->
                 IF s[j] = 1 THEN 1 ELSE ix[j + Len(ix) - Len(s)]]

\* ------------------------------------------------- heap and handles
\* machine state threaded through one call:
\*   heap   sequence of storages [shape, at, cuda]
\*   err    "none" or the error that ended the call
\*   work   number of numeric kernels run so far in the call
\*   reads, writes   storages read / written in place so far in the call
Dummy == [sid |-> 0, shape |-> <<>>, map |-> <<>>]
Halt(m, e) == [m |-> [m EXCEPT !.err = e], t |-> Dummy]
Skip(m) == [m |-> m, t |-> Dummy]

At(m, t, ix) == m.heap[t.sid].at[t.map[ix]]
Contents(h, t) == [ix \in Idx(t.shape) |-> h[t.sid].at[t.map[ix]]]
IsCuda(h, t) == h[t.sid].cuda

Alloc(m, sh, at, cuda, rd) ==
  [m |-> [m EXCEPT !.heap = Append(@, [shape |-> sh, at |-> at, cuda |-> cuda]),
                   !.work = @ + 1,
                   !.reads = @ \cup rd],
   t |-> [sid |-> Len(m.heap) + 1, shape |-> sh,
          map |-> [ix \in Idx(sh) |-> ix]]]

\* the storage of a written in place: element a.map[ix] becomes f[ix]
Store(m, a, f, rd) ==
  LET old == m.heap[a.sid].at
      new == [bx \in DOMAIN old |->
                IF \E ix \in Idx(a.shape) : a.map[ix] = bx
                THEN f[CHOOSE ix \in Idx(a.shape) : a.map[ix] = bx]
                ELSE old[bx]]
  IN [m |-> [m EXCEPT !.heap = [@ EXCEPT ![a.sid].at = new],
                      !.work = @ + 1,
                      !.reads = @ \cup rd \cup {a.sid},
                      !.writes = @ \cup {a.sid}],
      t |-> a]

\* ------------------------------------------------------------ views
\* Tensor.unsqueeze(dim): a size-1 dimension inserted at 0-based position dim
unsqueeze(t, dim) ==
  LET sh == SubSeq(t.shape, 1, dim) \o <<1>> \o SubSeq(t.shape, dim + 1, Len(t.shape))
  IN [sid |-> t.sid, shape |-> sh,
      map |-> [ix \in Idx(sh) |->
                 t.map[SubSeq(ix, 1, dim) \o SubSeq(ix, dim + 2, Len(ix))]]]

\* Tensor.expand(*sizes): only size-1 dimensions may grow
expand(m, t, sizes) ==
  IF m.err # "none" THEN Skip(m)
  ELSE IF Len(sizes) # Len(t.shape)
          \/ \E j \in 1..Len(sizes) : t.shape[j] # sizes[j] /\ t.shape[j] # 1
       THEN Halt(m, "shape")
  ELSE [m |-> m,
        t |-> [sid |-> t.sid, shape |-> sizes,
               map |-> [ix \in Idx(sizes) |-> t.map[BIx(t.shape, ix)]]]]

\* Tensor.view(*sizes) of a contiguous tensor: same elements in row-major order
view(m, t, sizes) ==
  IF m.err # "none" THEN Skip(m)
  ELSE IF Numel(sizes) # Numel(t.shape) THEN Halt(m, "shape")
  ELSE [m |-> m,
        t |-> [sid |-> t.sid, shape |-> sizes,
               map |-> [ix \in Idx(sizes) |->
                          t.map[Unlin(t.shape, Lin(sizes, ix))]]]]

\* ------------------------------------------------- numeric kernels
\* the element-wise operation named f
Apply(f, x, y) ==
  IF f = "sub" THEN Sub(x, y) ELSE IF f = "div" THEN Div(x, y) ELSE Mul(x, y)

\* out-of-place binary kernel f with broadcasting: a fresh storage
Binary(m, a, b, f) ==
  IF m.err # "none" THEN Skip(m)
  ELSE IF ~Broadcastable(a.shape, b.shape) THEN Halt(m, "shape")
  ELSE LET sh == BShape(a.shape, b.shape)
       IN Alloc(m, sh,
                [ix \in Idx(sh) |-> Apply(f, At(m, a, BIx(a.shape, ix)),
                                             At(m, b, BIx(b.shape, ix)))],
                IsCuda(m.heap, a), {a.sid, b.sid})

\* in-place binary kernel f: b is broadcast to the shape of a, a is overwritten
Binary_(m, a, b, f) ==
  IF m.err # "none" THEN Skip(m)
  ELSE IF ~Broadcastable(a.shape, b.shape) \/ BShape(a.shape, b.shape) # a.shape
       THEN Halt(m, "shape")
  ELSE Store(m, a,
             [ix \in Idx(a.shape) |->
                Apply(f, At(m, a, ix), At(m, b, BIx(b.shape, ix)))],
             {b.sid})

\* Tensor.__sub__
sub(m, a, b) == Binary(m, a, b, "sub")
\* mutant of div: an epsilon-style guard that maps a zero divisor to 0
div_guarded(m, a, b) ==
  IF m.err # "none" THEN Skip(m)
  ELSE IF ~Broadcastable(a.shape, b.shape) THEN Halt(m, "shape")
  ELSE LET sh == BShape(a.shape, b.shape)
       IN Alloc(m, sh,
                [ix \in Idx(sh) |->
                   IF At(m, b, BIx(b.shape, ix)) = Fin(0) THEN Fin(0)
                   ELSE Div(At(m, a, BIx(a.shape, ix)), At(m, b, BIx(b.shape, ix)))],
                IsCuda(m.heap, a), {a.sid, b.sid})
\* mutant of div: the in-place Tensor.div_
div_(m, a, b) == Binary_(m, a, b, "div")
\* Tensor.div (out of place)
div(m, a, b) == Binary(m, a, b, "div")
\* Tensor.mul_ with a tensor argument
mul_(m, a, b) == Binary_(m, a, b, "mul")

\* c * Tensor with a Python number c (out of place)
rmul(m, c, a) ==
  IF m.err # "none" THEN Skip(m)
  ELSE Alloc(m, a.shape, [ix \in Idx(a.shape) |-> Mul(Fin(c), At(m, a, ix))],
             IsCuda(m.heap, a), {a.sid})

\* Tensor.mul_ with a Python number c
mul_scalar_(m, a, c) ==
  IF m.err # "none" THEN Skip(m)
  ELSE Store(m, a, [ix \in Idx(a.shape) |-> Mul(At(m, a, ix), Fin(c))], {})

\* Tensor.pow_(2)
pow_(m, a) ==
  IF m.err # "none" THEN Skip(m)
  ELSE Store(m, a, [ix \in Idx(a.shape) |-> Mul(At(m, a, ix), At(m, a, ix))], {})

\* Tensor.sum(dims): dims is the set of 0-based dimensions summed away
Keep(sh, dims) == SelectSeq([j \in 1..Len(sh) |-> j], LAMBDA j : (j - 1) \notin dims)
Proj(ix, keep) == [j \in 1..Len(keep) |-> ix[keep[j]]]
sum(m, a, dims) ==
  IF m.err # "none" THEN Skip(m)
  ELSE LET keep == Keep(a.shape, dims)
           sh == Proj(a.shape, keep)
           vals == Contents(m.heap, a)
       IN Alloc(m, sh,
                [ix \in Idx(sh) |->
                   SumOver(vals, {jx \in Idx(a.shape) : Proj(jx, keep) = ix})],
                IsCuda(m.heap, a), {a.sid})

\* ------------------------------------------------------ state machine
VARIABLES
  op,        \* "scaled_l2" or "aggregate": the operator the caller applies
  seeds,     \* the seeds the caller's tensors were filled from
  orig,      \* the storages of the forward arguments as the caller built them
  inputs,    \* the three positional arguments of forward (handles)
  m,         \* heap, and error / work / reads / writes / backend calls of the last call
  base,      \* number of storages that existed when the last call started
  pc,        \* "init", "forwarded", "fwd_failed", "backwarded", "bwd_failed"
  saved,     \* ctx.saved_variables
  out,       \* <<the tensor forward returned>>, or <<>>
  returned,  \* contents of that tensor at the moment forward returned it
  gout,      \* <<the output gradient handed to backward>>, or <<>>
  grads      \* the tuple backward returned, or <<>>

vars == <<op, seeds, orig, inputs, m, base, pc, saved, out, returned, gout, grads>>

\* forward has ended in machine state r.m, returning r.out and retaining r.saved
Forwarded(r) ==
  /\ m' = r.m
  /\ base' = Len(m.heap)
  /\ saved' = r.saved
  /\ out' = r.out
  /\ returned' = IF r.out = <<>> THEN <<>> ELSE <<Contents(r.m.heap, r.out[1])>>
  /\ pc' = IF r.m.err = "none" THEN "forwarded" ELSE "fwd_failed"
  /\ UNCHANGED <<op, seeds, orig, inputs, gout, grads>>

\* backward, given gradient g, has ended in machine state r.m, returning r.grads
Backwarded(g, r) ==
  /\ m' = r.m
  /\ base' = g.sid
  /\ gout' = <<g>>
  /\ grads' = r.grads
  /\ pc' = IF r.m.err = "none" THEN "backwarded" ELSE "bwd_failed"
  /\ UNCHANGED <<op, seeds, orig, inputs, saved, out, returned>>

\* --------------------------------------------------- ScaledL2 (code)
\* each step of a handler is bound to its value before the next one uses it

\* mutant of ScaledL2_forward: the squares are summed over the codeword axis
ScaledL2_forward_axis(m0, X, C, S) ==
  \E e \in {expand(m0, unsqueeze(X, 2),
                   <<X.shape[1], X.shape[2], C.shape[1], C.shape[2]>>)} :
  \E c \in {unsqueeze(unsqueeze(C, 0), 0)} :
  \E d \in {sub(e.m, e.t, c)} :
  \E p \in {pow_(d.m, d.t)} :
  \E s \in {sum(p.m, p.t, {2})} :
  \E v \in {view(s.m, S, <<1, 1, C.shape[1]>>)} :
  \E SL \in {mul_(v.m, s.t, v.t)} :
    Forwarded([m |-> SL.m,
               out |-> IF SL.m.err = "none" THEN <<SL.t>> ELSE <<>>,
               saved |-> IF SL.m.err = "none" THEN <<X, C, S, SL.t>> ELSE <<>>])

\* mutant of ScaledL2_forward: the scaling is done out of place, so the tensor
\* retained is the unscaled sum and not the tensor returned
ScaledL2_forward_stale(m0, X, C, S) ==
  \E e \in {expand(m0, unsqueeze(X, 2),
                   <<X.shape[1], X.shape[2], C.shape[1], C.shape[2]>>)} :
  \E c \in {unsqueeze(unsqueeze(C, 0), 0)} :
  \E d \in {sub(e.m, e.t, c)} :
  \E p \in {pow_(d.m, d.t)} :
  \E s \in {sum(p.m, p.t, {3})} :
  \E v \in {view(s.m, S, <<1, 1, C.shape[1]>>)} :
  \E SL \in {Binary(v.m, s.t, v.t, "mul")} :
    Forwarded([m |-> SL.m,
               out |-> IF SL.m.err = "none" THEN <<SL.t>> ELSE <<>>,
               saved |-> IF SL.m.err = "none" THEN <<X, C, S, s.t>> ELSE <<>>])

\* ScaledL2.forward(ctx, X, C, S), called in machine state m0
ScaledL2_forward(m0, X, C, S) ==
  \E e \in {expand(m0, unsqueeze(X, 2),
                   <<X.shape[1], X.shape[2], C.shape[1], C.shape[2]>>)} :
  \E c \in {unsqueeze(unsqueeze(C, 0), 0)} :
  \E d \in {sub(e.m, e.t, c)} :
  \E p \in {pow_(d.m, d.t)} :
  \E s \in {sum(p.m, p.t, {3})} :
  \E v \in {view(s.m, S, <<1, 1, C.shape[1]>>)} :
  \E SL \in {mul_(v.m, s.t, v.t)} :
    Forwarded([m |-> SL.m,
               out |-> IF SL.m.err = "none" THEN <<SL.t>> ELSE <<>>,
               saved |-> IF SL.m.err = "none" THEN <<X, C, S, SL.t>> ELSE <<>>])

\* mutant of ScaledL2_backward: the codeword gradient is not negated
ScaledL2_backward_sign(m0, ctx, GSL) ==
  \E X \in {ctx[1]}, C \in {ctx[2]}, S \in {ctx[3]}, SL \in {ctx[4]} :
  \E e \in {expand(m0, unsqueeze(X, 2),
                   <<X.shape[1], X.shape[2], C.shape[1], C.shape[2]>>)} :
  \E c \in {unsqueeze(unsqueeze(C, 0), 0)} :
  \E d \in {sub(e.m, e.t, c)} :
  \E g \in {rmul(d.m, 2, GSL)} :
  \E v \in {view(g.m, S, <<1, 1, C.shape[1]>>)} :
  \E gs \in {mul_(v.m, g.t, v.t)} :
  \E u \in {unsqueeze(gs.t, 3)} :
  \E tmp \in {mul_(gs.m, d.t, u)} :
  \E GX \in {sum(tmp.m, tmp.t, {2})} :
  \E GC \in {sum(GX.m, tmp.t, {0, 1})} :
  \E w \in {view(GC.m, S, <<1, 1, C.shape[1]>>)} :
  \E q \in {div(w.m, SL, w.t)} :
  \E r \in {mul_(q.m, q.t, GSL)} :
  \E GS \in {sum(r.m, r.t, {0, 1})} :
    Backwarded(GSL,
               [m |-> GS.m,
                grads |-> IF GS.m.err = "none" THEN <<GX.t, GC.t, GS.t>> ELSE <<>>])

\* ScaledL2.backward(ctx, GSL), called in machine state m0
ScaledL2_backward(m0, ctx, GSL) ==
  \E X \in {ctx[1]}, C \in {ctx[2]}, S \in {ctx[3]}, SL \in {ctx[4]} :
  \E e \in {expand(m0, unsqueeze(X, 2),
                   <<X.shape[1], X.shape[2], C.shape[1], C.shape[2]>>)} :
  \E c \in {unsqueeze(unsqueeze(C, 0), 0)} :
  \E d \in {sub(e.m, e.t, c)} :
  \E g \in {rmul(d.m, 2, GSL)} :
  \E v \in {view(g.m, S, <<1, 1, C.shape[1]>>)} :
  \E gs \in {mul_(v.m, g.t, v.t)} :
  \E u \in {unsqueeze(gs.t, 3)} :
  \E tmp \in {mul_(gs.m, d.t, u)} :
  \E GX \in {sum(tmp.m, tmp.t, {2})} :
  \E sc \in {sum(GX.m, tmp.t, {0, 1})} :
  \E GC \in {mul_scalar_(sc.m, sc.t, -1)} :
  \E w \in {view(GC.m, S, <<1, 1, C.shape[1]>>)} :
  \E q \in {div(w.m, SL, w.t)} :
  \E r \in {mul_(q.m, q.t, GSL)} :
  \E GS \in {sum(r.m, r.t, {0, 1})} :
    Backwarded(GSL,
               [m |-> GS.m,
                grads |-> IF GS.m.err = "none" THEN <<GX.t, GC.t, GS.t>> ELSE <<>>])

\* ------------------------------------- numeric backends (encoding.lib)
\* both backends implement the same contract on tensors resident in their
\* own memory; dev is TRUE for the accelerator backend
Backend(dev) == IF dev THEN "gpu" ELSE "cpu"
Called(m0, dev, fn) == [m0 EXCEPT !.calls = Append(@, <<Backend(dev), fn>>)]

lib_aggregate_forward(dev, m0, A, X, C) ==
  IF A.shape[1] # X.shape[1] \/ A.shape[2] # X.shape[2]
     \/ A.shape[3] # C.shape[1] \/ X.shape[3] # C.shape[2]
  THEN Halt(Called(m0, dev, "aggregate_forward"), "shape")
  ELSE IF \E t \in {A, X, C} : IsCuda(m0.heap, t) # dev
  THEN Halt(Called(m0, dev, "aggregate_forward"), "placement")
  ELSE LET sh == <<A.shape[1], C.shape[1], C.shape[2]>>
       IN Alloc(Called(m0, dev, "aggregate_forward"), sh,
                [ix \in Idx(sh) |->
                   SumOver([i \in 1..A.shape[2] |->
                              Mul(At(m0, A, <<ix[1], i, ix[2]>>),
                                  Sub(At(m0, X, <<ix[1], i, ix[3]>>),
                                      At(m0, C, <<ix[2], ix[3]>>)))],
                           1..A.shape[2])],
                dev, {A.sid, X.sid, C.sid})

\* the three gradients as element functions over the shapes of A, X and C
lib_gradA(m0, gradE, A, X, C) ==
  [ix \in Idx(A.shape) |->
     SumOver([d \in 1..C.shape[2] |->
                Mul(At(m0, gradE, <<ix[1], ix[3], d>>),
                    Sub(At(m0, X, <<ix[1], ix[2], d>>), At(m0, C, <<ix[3], d>>)))],
             1..C.shape[2])]
lib_gradX(m0, gradE, A, X, C) ==
  [ix \in Idx(X.shape) |->
     SumOver([k \in 1..C.shape[1] |->
                Mul(At(m0, gradE, <<ix[1], k, ix[3]>>),
                    At(m0, A, <<ix[1], ix[2], k>>))],
             1..C.shape[1])]
lib_gradC(m0, gradE, A, X, C) ==
  [ix \in Idx(C.shape) |->
     Neg(SumOver([bi \in Idx(<<A.shape[1], A.shape[2]>>) |->
                    Mul(At(m0, gradE, <<bi[1], ix[1], ix[2]>>),
                        At(m0, A, <<bi[1], bi[2], ix[1]>>))],
                 Idx(<<A.shape[1], A.shape[2]>>)))]

lib_aggregate_backward(dev, m0, gradE, A, X, C) ==
  IF A.shape[1] # X.shape[1] \/ A.shape[2] # X.shape[2]
     \/ A.shape[3] # C.shape[1] \/ X.shape[3] # C.shape[2]
     \/ gradE.shape # <<A.shape[1], C.shape[1], C.shape[2]>>
  THEN [m |-> [Called(m0, dev, "aggregate_backward") EXCEPT !.err = "shape"],
        grads |-> <<>>]
  ELSE IF \E t \in {gradE, A, X, C} : IsCuda(m0.heap, t) # dev
  THEN [m |-> [Called(m0, dev, "aggregate_backward") EXCEPT !.err = "placement"],
        grads |-> <<>>]
  ELSE LET rd == {gradE.sid, A.sid, X.sid, C.sid}
           n == Len(m0.heap)
           st(sh, at) == [shape |-> sh, at |-> at, cuda |-> dev]
       IN [m |-> [Called(m0, dev, "aggregate_backward") EXCEPT
                    !.heap = @ \o << st(A.shape, lib_gradA(m0, gradE, A, X, C)),
                                     st(X.shape, lib_gradX(m0, gradE, A, X, C)),
                                     st(C.shape, lib_gradC(m0, gradE, A, X, C)) >>,
                    !.work = @ + 3,
                    !.reads = @ \cup rd],
           grads |-> << [sid |-> n + 1, shape |-> A.shape,
                         map |-> [ix \in Idx(A.shape) |-> ix]],
                        [sid |-> n + 2, shape |-> X.shape,
                         map |-> [ix \in Idx(X.shape) |-> ix]],
                        [sid |-> n + 3, shape |-> C.shape,
                         map |-> [ix \in Idx(C.shape) |-> ix]] >>]

\* -------------------------------------------------- _aggregate (code)
\* mutant of aggregate_forward: A and X change places in the backend call
aggregate_forward_swapped(m0, A, X, C) ==
  \E E \in {IF IsCuda(m0.heap, A)
            THEN lib_aggregate_forward(TRUE, m0, X, A, C)
            ELSE lib_aggregate_forward(FALSE, m0, X, A, C)} :
    Forwarded([m |-> E.m,
               out |-> IF E.m.err = "none" THEN <<E.t>> ELSE <<>>,
               saved |-> <<A, X, C>>])

\* _aggregate.forward(ctx, A, X, C), called in machine state m0
aggregate_forward(m0, A, X, C) ==
  \E E \in {IF IsCuda(m0.heap, A)
            THEN lib_aggregate_forward(TRUE, m0, A, X, C)
            ELSE lib_aggregate_forward(FALSE, m0, A, X, C)} :
    Forwarded([m |-> E.m,
               out |-> IF E.m.err = "none" THEN <<E.t>> ELSE <<>>,
               saved |-> <<A, X, C>>])

\* mutant of aggregate_backward: gradX and gradA are returned in each other's place
aggregate_backward_order(m0, ctx, gradE) ==
  \E A \in {ctx[1]}, X \in {ctx[2]}, C \in {ctx[3]} :
  \E g \in {IF IsCuda(m0.heap, A)
            THEN lib_aggregate_backward(TRUE, m0, gradE, A, X, C)
            ELSE lib_aggregate_backward(FALSE, m0, gradE, A, X, C)} :
    Backwarded(gradE,
               [m |-> g.m,
                grads |-> IF g.m.err = "none"
                          THEN <<g.grads[2], g.grads[1], g.grads[3]>> ELSE <<>>])

\* mutant of aggregate_backward: the backend is chosen by the residency of gradE
aggregate_backward_byGrad(m0, ctx, gradE) ==
  \E A \in {ctx[1]}, X \in {ctx[2]}, C \in {ctx[3]} :
  \E g \in {IF IsCuda(m0.heap, gradE)
            THEN lib_aggregate_backward(TRUE, m0, gradE, A, X, C)
            ELSE lib_aggregate_backward(FALSE, m0, gradE, A, X, C)} :
    Backwarded(gradE,
               [m |-> g.m,
                grads |-> IF g.m.err = "none"
                          THEN <<g.grads[1], g.grads[2], g.grads[3]>> ELSE <<>>])

\* _aggregate.backward(ctx, gradE), called in machine state m0
aggregate_backward(m0, ctx, gradE) ==
  \E A \in {ctx[1]}, X \in {ctx[2]}, C \in {ctx[3]} :
  \E g \in {IF IsCuda(m0.heap, A)
            THEN lib_aggregate_backward(TRUE, m0, gradE, A, X, C)
            ELSE lib_aggregate_backward(FALSE, m0, gradE, A, X, C)} :
    Backwarded(gradE,
               [m |-> g.m,
                grads |-> IF g.m.err = "none"
                          THEN <<g.grads[1], g.grads[2], g.grads[3]>> ELSE <<>>])

\* --------------------------------------------- callers and their inputs
Dims == 1..MaxDim
Seeds == 0..MaxSeed
Ops == {"scaled_l2", "aggregate"}
\* which dimension of the second tensor family disagrees, if any
Mismatches == {"none", "D", "K", "B", "N"}
Other(n) == (n % MaxDim) + 1

\* element l (row-major) of the tensor filled from seed with salt
Gen(seed, salt, l) ==
  (((seed + 1) * (l + 1) + salt * (seed + l + 1)) % (2 * MaxVal + 1)) - MaxVal
Filled(sh, seed, salt, cuda) ==
  [shape |-> sh, cuda |-> cuda,
   at |-> [ix \in Idx(sh) |-> Fin(Gen(seed, salt, Lin(sh, ix)))]]
\* the same with element z (1-based, 0 for none) set to zero
ZeroedAt(st, z) ==
  [st EXCEPT !.at = [ix \in DOMAIN @ |-> IF ix = <<z>> THEN Fin(0) ELSE @[ix]]]
Handle(sid, sh) == [sid |-> sid, shape |-> sh, map |-> [ix \in Idx(sh) |-> ix]]
Fresh(heap, calls) ==
  [heap |-> heap, err |-> "none", work |-> 0, reads |-> {}, writes |-> {},
   calls |-> calls]

\* the three forward arguments of operator o, as storages
InputHeap(o, shapes, sx, sc, z, cudaA, cudaX) ==
  IF o = "scaled_l2"
  THEN << Filled(shapes[1], sx, 0, cudaX),
          Filled(shapes[2], sc, 1, cudaX),
          ZeroedAt(Filled(shapes[3], sc, 2, cudaX), z) >>
  ELSE << Filled(shapes[1], sx, 3, cudaA),
          Filled(shapes[2], sx, 0, cudaX),
          Filled(shapes[3], sc, 1, cudaX) >>

Init ==
  \E o \in Ops, B \in Dims, N \in Dims, K \in Dims, D \in Dims,
     mis \in Mismatches, sx \in Seeds, sc \in Seeds,
     z \in 0..MaxDim, cudaA \in BOOLEAN, cudaX \in BOOLEAN :
  \E Dc \in {IF mis = "D" THEN Other(D) ELSE D},
     Ko \in {IF mis = "K" THEN Other(K) ELSE K},
     Ba \in {IF mis = "B" THEN Other(B) ELSE B},
     Na \in {IF mis = "N" THEN Other(N) ELSE N} :
  \E shapes \in {IF o = "scaled_l2"
                 THEN << <<B, N, D>>, <<K, Dc>>, <<Ko>> >>
                 ELSE << <<Ba, Na, Ko>>, <<B, N, D>>, <<K, Dc>> >>} :
  \E heap \in {InputHeap(o, shapes, sx, sc, z, cudaA, cudaX)} :
       \* ScaledL2 never looks at residency: its tensors are taken in host memory
    /\ (o = "scaled_l2" =>
          mis \in {"none", "D", "K"} /\ ~cudaA /\ ~cudaX /\ z <= Ko)
    /\ (o = "aggregate" => z = 0)
    /\ op = o
    /\ seeds = <<sx, sc>>
    /\ orig = heap
    /\ inputs = [j \in 1..3 |-> Handle(j, shapes[j])]
    /\ m = Fresh(heap, <<>>)
    /\ base = 3
    /\ pc = "init"
    /\ saved = <<>>
    /\ out = <<>>
    /\ returned = <<>>
    /\ gout = <<>>
    /\ grads = <<>>

\* scaled_l2(X, C, S)
ScaledL2Forward ==
  /\ pc = "init" /\ op = "scaled_l2"
  /\ \E m0 \in {Fresh(m.heap, m.calls)} :
       ScaledL2_forward(m0, inputs[1], inputs[2], inputs[3])

\* aggregate(A, X, C)
AggregateForward ==
  /\ pc = "init" /\ op = "aggregate"
  /\ \E m0 \in {Fresh(m.heap, m.calls)} :
       aggregate_forward(m0, inputs[1], inputs[2], inputs[3])

\* the framework hands backward a gradient shaped like the forward output
ScaledL2Backward ==
  /\ pc = "forwarded" /\ op = "scaled_l2"
  /\ \E g \in {Filled(out[1].shape, seeds[1], 4, IsCuda(m.heap, out[1]))} :
     \E m0 \in {Fresh(Append(m.heap, g), m.calls)} :
     \E GSL \in {Handle(Len(m0.heap), out[1].shape)} :
       ScaledL2_backward(m0, saved, GSL)

AggregateBackward ==
  /\ pc = "forwarded" /\ op = "aggregate"
  /\ \E cudaG \in BOOLEAN :
     \E g \in {Filled(out[1].shape, seeds[1], 4, cudaG)} :
     \E m0 \in {Fresh(Append(m.heap, g), m.calls)} :
     \E gradE \in {Handle(Len(m0.heap), out[1].shape)} :
       aggregate_backward(m0, saved, gradE)

Next == ScaledL2Forward \/ ScaledL2Backward \/ AggregateForward \/ AggregateBackward

Spec == Init /\ [][Next]_vars

\* ------------------------------------------------------------ claims
\* contents of the j-th forward argument, of the output gradient and of the
\* j-th returned gradient in the current state
Arg(j) == Contents(m.heap, inputs[j])
GradOut == Contents(m.heap, gout[1])
Grad(j) == Contents(m.heap, grads[j])
Zero == Fin(0)

L2Shapes ==
  /\ op = "scaled_l2"
  /\ inputs[1].shape[3] = inputs[2].shape[2]
  /\ inputs[3].shape[1] = inputs[2].shape[1]
AggShapes ==
  /\ op = "aggregate"
  /\ inputs[1].shape[1] = inputs[2].shape[1]
  /\ inputs[1].shape[2] = inputs[2].shape[2]
  /\ inputs[1].shape[3] = inputs[3].shape[1]
  /\ inputs[2].shape[3] = inputs[3].shape[2]
AggSameMemory ==
  \A j \in 1..3 : IsCuda(m.heap, inputs[j]) = IsCuda(m.heap, inputs[1])

\* scaled_l2: X = Arg(1) (B,N,D), C = Arg(2) (K,D), S = Arg(3) (K)
L2B == inputs[1].shape[1]
L2N == inputs[1].shape[2]
L2D == inputs[1].shape[3]
L2K == inputs[2].shape[1]
\* X[b,i,d] - C[k,d]
L2Res(b, i, k, d) == Sub(Arg(1)[<<b, i, d>>], Arg(2)[<<k, d>>])
\* sum over d of (X[b,i,d] - C[k,d])^2
SqDist(b, i, k) ==
  SumOver([d \in 1..L2D |-> Mul(L2Res(b, i, k, d), L2Res(b, i, k, d))], 1..L2D)

\* C1: for X (B,N,D), C (K,D), S (K) the result of scaled_l2 has shape (B,N,K)
\* and SL[b,i,k] = S[k] * sum over d of (X[b,i,d] - C[k,d])^2.
C1_ScaledL2Forward ==
  (L2Shapes /\ pc # "init") =>
     /\ pc # "fwd_failed"
     /\ Len(out) = 1
     /\ out[1].shape = <<L2B, L2N, L2K>>
     /\ \A ix \in Idx(<<L2B, L2N, L2K>>) :
          returned[1][ix] = Mul(Arg(3)[<<ix[3]>>], SqDist(ix[1], ix[2], ix[3]))

C1_Witness ==
  /\ L2Shapes /\ pc = "forwarded"
  /\ L2N >= 2 /\ L2K >= 2 /\ L2D >= 2
  /\ \E ix \in Idx(out[1].shape), jx \in Idx(out[1].shape) :
       /\ returned[1][ix] # Zero /\ returned[1][jx] # Zero
       /\ returned[1][ix] # returned[1][jx]
  /\ \E k \in 1..L2K : Arg(3)[<<k>>] \notin {Zero, Fin(1)}

L2NonzeroScale == \A k \in 1..L2K : Arg(3)[<<k>>] # Zero
\* 2 * gradSL[b,i,k] * S[k] * (X[b,i,d] - C[k,d])
L2Term(b, i, k, d) ==
  Mul(Mul(Mul(Fin(2), GradOut[<<b, i, k>>]), Arg(3)[<<k>>]), L2Res(b, i, k, d))
L2BN == Idx(<<L2B, L2N>>)

\* C2: with every S[k] nonzero, scaled_l2 backward returns (GX, GC, GS) in the
\* order of (X, C, S): GX[b,i,d] = sum_k 2*gradSL*S[k]*(X-C),
\* GC[k,d] = -sum_{b,i} 2*gradSL*S[k]*(X-C), and
\* GS[k] = sum_{b,i} (SL/S[k])*gradSL = sum_{b,i} gradSL * sum_d (X-C)^2.
C2_ScaledL2Backward ==
  (L2Shapes /\ pc \in {"backwarded", "bwd_failed"} /\ L2NonzeroScale) =>
     /\ pc = "backwarded"
     /\ Len(grads) = 3
     /\ grads[1].shape = inputs[1].shape
     /\ grads[2].shape = inputs[2].shape
     /\ grads[3].shape = inputs[3].shape
     /\ \A ix \in Idx(inputs[1].shape) :
          Grad(1)[ix] = SumOver([k \in 1..L2K |-> L2Term(ix[1], ix[2], k, ix[3])],
                                1..L2K)
     /\ \A ix \in Idx(inputs[2].shape) :
          Grad(2)[ix] = Neg(SumOver([bi \in L2BN |->
                                       L2Term(bi[1], bi[2], ix[1], ix[2])], L2BN))
     /\ \A k \in 1..L2K :
          /\ Grad(3)[<<k>>] =
               SumOver([bi \in L2BN |->
                          Mul(Div(returned[1][<<bi[1], bi[2], k>>], Arg(3)[<<k>>]),
                              GradOut[<<bi[1], bi[2], k>>])], L2BN)
          /\ Grad(3)[<<k>>] =
               SumOver([bi \in L2BN |->
                          Mul(GradOut[<<bi[1], bi[2], k>>],
                              SqDist(bi[1], bi[2], k))], L2BN)

C2_Witness ==
  /\ L2Shapes /\ pc = "backwarded" /\ L2NonzeroScale
  /\ L2B * L2N >= 2 /\ L2K >= 2 /\ L2D >= 2
  /\ \E ix \in Idx(inputs[1].shape) : Grad(1)[ix] # Zero
  /\ \E ix \in Idx(inputs[2].shape) : Grad(2)[ix] # Zero
  /\ \E k \in 1..L2K : Grad(3)[<<k>>] # Zero

\* C8: scaled_l2 backward divides by S unguarded: for every k with S[k] = 0
\* the returned GS[k] is non-finite, and no error is raised.
C8_DegenerateScale ==
  (L2Shapes /\ pc \in {"backwarded", "bwd_failed"}) =>
     /\ pc = "backwarded"
     /\ m.err = "none"
     /\ \A k \in 1..L2K :
          Arg(3)[<<k>>] = Zero => ~IsFinite(Grad(3)[<<k>>])

C8_Witness ==
  /\ L2Shapes /\ pc = "backwarded"
  /\ \E k \in 1..L2K, j \in 1..L2K :
       /\ Arg(3)[<<k>>] = Zero /\ IsNaN(Grad(3)[<<k>>])
       /\ Arg(3)[<<j>>] # Zero /\ IsFinite(Grad(3)[<<j>>])

\* aggregate: A = Arg(1) (B,N,K), X = Arg(2) (B,N,D), C = Arg(3) (K,D)
AgB == inputs[2].shape[1]
AgN == inputs[2].shape[2]
AgD == inputs[2].shape[3]
AgK == inputs[3].shape[1]
AgBN == Idx(<<AgB, AgN>>)

AggBackwardCase ==
  /\ AggShapes /\ AggSameMemory
  /\ pc \in {"backwarded", "bwd_failed"}
  /\ IsCuda(m.heap, gout[1]) = IsCuda(m.heap, inputs[1])

\* C4: aggregate backward returns (gradA, gradX, gradC) in the order of (A, X, C):
\* gradA[b,i,k] = sum_d gradE[b,k,d]*(X[b,i,d]-C[k,d]),
\* gradX[b,i,d] = sum_k gradE[b,k,d]*A[b,i,k],
\* gradC[k,d] = -sum_{b,i} gradE[b,k,d]*A[b,i,k].
C4_AggregateBackward ==
  AggBackwardCase =>
     /\ pc = "backwarded"
     /\ Len(grads) = 3
     /\ \A j \in 1..3 : grads[j].shape = inputs[j].shape
     /\ \A ix \in Idx(inputs[1].shape) :
          Grad(1)[ix] =
            SumOver([d \in 1..AgD |->
                       Mul(GradOut[<<ix[1], ix[3], d>>],
                           Sub(Arg(2)[<<ix[1], ix[2], d>>], Arg(3)[<<ix[3], d>>]))],
                    1..AgD)
     /\ \A ix \in Idx(inputs[2].shape) :
          Grad(2)[ix] =
            SumOver([k \in 1..AgK |->
                       Mul(GradOut[<<ix[1], k, ix[3]>>], Arg(1)[<<ix[1], ix[2], k>>])],
                    1..AgK)
     /\ \A ix \in Idx(inputs[3].shape) :
          Grad(3)[ix] =
            Neg(SumOver([bi \in AgBN |->
                           Mul(GradOut[<<bi[1], ix[1], ix[2]>>],
                               Arg(1)[<<bi[1], bi[2], ix[1]>>])], AgBN))

C4_Witness ==
  /\ AggBackwardCase /\ pc = "backwarded"
  /\ AgB * AgN >= 2 /\ AgK >= 2 /\ AgD >= 2
  /\ \A j \in 1..3 : \E ix \in Idx(inputs[j].shape) : Grad(j)[ix] # Zero
  /\ Grad(1) # Grad(2)

\* C5: whenever the input shapes disagree, the call ends in a shape error before
\* any numeric work is performed and returns no result tensor.
C5_ShapeErrorFirst ==
  (pc # "init" /\ ~(L2Shapes \/ AggShapes)) =>
     /\ pc = "fwd_failed"
     /\ m.err = "shape"
     /\ m.work = 0
     /\ out = <<>>

\* C6: aggregate calls exactly one backend per pass, the accelerator backend
\* exactly when A is in accelerator memory, the same one in forward and in
\* backward, whatever the residency of X, C and gradE.
C6_Dispatch ==
  op = "aggregate" =>
    LET b == Backend(IsCuda(m.heap, inputs[1]))
    IN /\ pc = "init" => m.calls = <<>>
       /\ pc \in {"forwarded", "fwd_failed"} =>
            m.calls = << <<b, "aggregate_forward">> >>
       /\ pc \in {"backwarded", "bwd_failed"} =>
            m.calls = << <<b, "aggregate_forward">>, <<b, "aggregate_backward">> >>

C6_Witness ==
  /\ op = "aggregate" /\ pc = "bwd_failed"
  /\ IsCuda(m.heap, gout[1]) # IsCuda(m.heap, inputs[1])
  /\ Len(m.calls) = 2

Sids(hs) == {hs[j].sid : j \in 1..Len(hs)}
FreshSids == {sid \in 1..Len(m.heap) : sid > base}

\* C9: aggregate forward retains exactly (A, X, C) and not E; scaled_l2 forward
\* retains exactly (X, C, S, SL) with SL the very tensor it returns; backward
\* reads the retained tensors and the incoming gradient and nothing else.
C9_Retention ==
  /\ (op = "aggregate" /\ pc # "init") =>
        /\ saved = <<inputs[1], inputs[2], inputs[3]>>
        /\ out # <<>> => out[1].sid \notin Sids(saved)
  /\ (op = "scaled_l2" /\ pc \in {"forwarded", "backwarded", "bwd_failed"}) =>
        saved = <<inputs[1], inputs[2], inputs[3], out[1]>>
  /\ pc \in {"backwarded", "bwd_failed"} =>
        m.reads \subseteq Sids(saved) \cup Sids(gout) \cup FreshSids
  /\ (op = "scaled_l2" /\ pc = "backwarded") =>
        Sids(saved) \cup Sids(gout) \subseteq m.reads

C9_Witness ==
  /\ op = "scaled_l2" /\ pc = "backwarded"
  /\ saved[4] = out[1]
  /\ out[1].sid \in m.reads

\* C10: across scaled_l2 forward and backward the contents of X, C, S, GSL and
\* of the returned SL never change; in-place steps write only to tensors created
\* inside the call.
C10_NoInputMutation ==
  op = "scaled_l2" =>
     /\ \A j \in 1..3 : m.heap[j] = orig[j]
     /\ out # <<>> => Contents(m.heap, out[1]) = returned[1]
     /\ gout # <<>> =>
          m.heap[gout[1].sid].at = Filled(gout[1].shape, seeds[1], 4, FALSE).at
     /\ m.writes \subseteq FreshSids

C10_Witness ==
  /\ op = "scaled_l2" /\ pc = "backwarded"
  /\ m.writes # {}
  /\ \E ix \in Idx(out[1].shape) : returned[1][ix] # Zero

====
